---- MODULE Spec2Model ----
(***************************************************************************)
(* Model of examples/01_run_task_resources/lambda/main.py: the Lambda      *)
(* handler of an HCP Terraform Run Task and its four helpers               *)
(* (get_parameter, get_plan_json, verify_hmac, notify_result).             *)
(*                                                                         *)
(* One invocation of handler is followed statement by statement; pc is     *)
(* the handler's position.  The process may be reused for a further        *)
(* invocation; the code keeps no module-level state, so every invocation   *)
(* starts from fresh locals.                                               *)
(*                                                                         *)
(* Text received from the network (the request body, the plan document)    *)
(* is a sequence of JSON tokens, parsed by json_loads.  Text sent out      *)
(* (response bodies, the callback payload) is built by string              *)
(* concatenation the way json.dumps lays it out.                           *)
(***************************************************************************)
EXTENDS Integers, Sequences, FiniteSets, TLC

VARIABLES
    pc,               \* position of handler: which statement runs next
    invocationCount,  \* invocations the process has served so far
    environ,          \* os.environ (process configuration)
    event,            \* the event argument of handler (a dict)
    hmac_key,         \* local hmac_key (line 130)
    body,             \* local body (line 133), a Python value
    signature,        \* local signature (line 135)
    plan_json,        \* local plan_json (line 162), a Python value
    status,           \* local status (line 176)
    message,          \* local message (lines 169/172)
    verified,         \* history: what verify_hmac did in this invocation
    invoked,          \* history: helper functions entered, in order
    calls,            \* history: outbound HTTP requests issued and their replies, in order
    response          \* the value handler returned (NoResponse while running)

vars == << pc, invocationCount, environ, event, hmac_key, body, signature,
           plan_json, status, message, verified, invoked, calls, response >>

\* How many invocations one process serves in the model.
MaxInvocations == 2

-----------------------------------------------------------------------------
(* Python values *)

PyNone == [type |-> "NoneType"]
PyStr(s) == [type |-> "str", val |-> s]
PyDict(f) == [type |-> "dict", items |-> f]
PyList == [type |-> "list"]

\* str(x) as used by the f-strings of lines 47 and 90
str(x) == IF x = PyNone THEN "None" ELSE x.val

\* dict.get(key) with the default None (lines 43, 44, 86, 87, 145)
dict_get(d, key) == IF key \in DOMAIN d.items THEN d.items[key] ELSE PyNone

-----------------------------------------------------------------------------
(* JSON text: a sequence of tokens.  A token is a punctuation mark, a       *)
(* whitespace run, or (anything else) the content of a string literal.      *)

WS == " "
Punct == {"{", "}", "[", "]", ":", ",", WS}

IsLiteral(tok) == tok \notin Punct

StripWS(text) == SelectSeq(text, LAMBDA tok : tok # WS)

\* the tokens between the braces form  key : value (, key : value)*
MembersOk(inner) ==
    \/ Len(inner) = 0
    \/ /\ Len(inner) % 4 = 3
       /\ \A i \in 1..Len(inner) :
            /\ (i % 4 = 1 => IsLiteral(inner[i]))
            /\ (i % 4 = 2 => inner[i] = ":")
            /\ (i % 4 = 3 => IsLiteral(inner[i]))
            /\ (i % 4 = 0 => inner[i] = ",")

KeyPositions(inner, key) == {i \in 1..Len(inner) : i % 4 = 1 /\ inner[i] = key}

MaxOf(S) == CHOOSE m \in S : \A n \in S : n <= m

\* a repeated key keeps its last value, as Python's json does
MembersDict(inner) ==
    [key \in {inner[i] : i \in {j \in 1..Len(inner) : j % 4 = 1}} |->
        PyStr(inner[MaxOf(KeyPositions(inner, key)) + 2])]

\* json.loads (lines 133, 52): the parsed value, or the exception raised
json_loads(text) ==
    LET t == StripWS(text) IN
    IF t = << "[", "]" >> THEN [raised |-> FALSE, value |-> PyList]
    ELSE IF /\ Len(t) >= 2
            /\ t[1] = "{"
            /\ t[Len(t)] = "}"
            /\ MembersOk(SubSeq(t, 2, Len(t) - 1))
         THEN [raised |-> FALSE,
               value |-> PyDict(MembersDict(SubSeq(t, 2, Len(t) - 1)))]
         ELSE [raised |-> TRUE, desc |-> "Expecting value: line 1 column 1 (char 0)"]

\* json.dumps of {"message": m} (lines 141, 199)
json_dumps_message(m) == "{\"message\": \"" \o m \o "\"}"

\* json.dumps of the task-results document (lines 93-99, 148-158, 182-189)
json_dumps_task_result(s, m) ==
    "{\"data\": {\"type\": \"task-results\", \"attributes\": {\"status\": \""
        \o s \o "\", \"message\": \"" \o m \o "\"}}}"

-----------------------------------------------------------------------------
(* Signatures *)

\* hmac.new(key, msg, hashlib.sha512).hexdigest() (line 71).  The digest is
\* kept symbolic: two digests are equal exactly when key and message are,
\* which is HMAC-SHA512 taken as collision-free.
hmac_sha512_hexdigest(key, msg) == << key, msg >>

\* the signature strings a caller can send besides digests
EmptySignature == << >>
NonAsciiSignature == << "\\u00e9" >>

\* hmac.compare_digest (line 72): TypeError on a str with non-ASCII characters
compare_digest(a, b) ==
    IF a = NonAsciiSignature \/ b = NonAsciiSignature
    THEN [raised |-> TRUE,
          desc |-> "comparing strings with non-ASCII characters is not supported"]
    ELSE [raised |-> FALSE, value |-> (a = b)]

\* verify_hmac (lines 56-72)
verify_hmac(payload, sig, secret) ==
    LET computed == hmac_sha512_hexdigest(secret, payload)
    IN  compare_digest(computed, sig)

-----------------------------------------------------------------------------
(* Timestamps *)

\* datetime.datetime.fromisoformat (line 163) on the timestamps of the model
fromisoformat(s) ==
    CASE s = "2024-01-01T10:14:00+00:00" ->
            [raised |-> FALSE,
             value |-> [year |-> 2024, month |-> 1, day |-> 1,
                        hour |-> 10, minute |-> 14, second |-> 0]]
      [] s = "2024-01-01T10:15:00+00:00" ->
            [raised |-> FALSE,
             value |-> [year |-> 2024, month |-> 1, day |-> 1,
                        hour |-> 10, minute |-> 15, second |-> 0]]
      [] s = "2024-06-30T23:00:59" ->
            [raised |-> FALSE,
             value |-> [year |-> 2024, month |-> 6, day |-> 30,
                        hour |-> 23, minute |-> 0, second |-> 59]]
      [] s = "2025-12-31T14:59:02" ->
            [raised |-> FALSE,
             value |-> [year |-> 2025, month |-> 12, day |-> 31,
                        hour |-> 14, minute |-> 59, second |-> 2]]
      [] OTHER ->
            [raised |-> TRUE, desc |-> "Invalid isoformat string: '" \o s \o "'"]

-----------------------------------------------------------------------------
(* Outbound requests.  Each helper is given the reply the network produces *)
(* and yields the requests it sent and its result or the exception raised. *)

Request(op, method, url, credential, data) ==
    [op |-> op, method |-> method, url |-> url, credential |-> credential,
     data |-> data]

\* mutation: the secret is requested a second time
get_parameter_retry(name, reply) ==
    LET url == "http://localhost:2773/systemsmanager/parameters/get?name="
                   \o name \o "&withDecryption=true"
        token == IF "AWS_SESSION_TOKEN" \in DOMAIN environ
                 THEN environ["AWS_SESSION_TOKEN"] ELSE ""
        sent == << Request("get_parameter", "GET", url, token, ""),
                   Request("get_parameter", "GET", url, token, "") >>
    IN  IF reply.kind = "value"
        THEN [raised |-> FALSE, sent |-> sent, value |-> reply.value]
        ELSE [raised |-> TRUE, sent |-> sent, desc |-> reply.desc]

\* get_parameter (lines 11-31)
get_parameter(name, reply) ==
    LET url == "http://localhost:2773/systemsmanager/parameters/get?name="
                   \o name \o "&withDecryption=true"
        token == IF "AWS_SESSION_TOKEN" \in DOMAIN environ
                 THEN environ["AWS_SESSION_TOKEN"] ELSE ""
        sent == << Request("get_parameter", "GET", url, token, "") >>
    IN  IF reply.kind = "value"
        THEN [raised |-> FALSE, sent |-> sent, value |-> reply.value]
        ELSE [raised |-> TRUE, sent |-> sent, desc |-> reply.desc]

\* urllib.request.Request(url): a url of None is refused before anything is
\* sent (ValueError); every url string of the model is well formed
BadUrl(url) == url = PyNone

\* mutation: a failed fetch is replaced by an empty-handed default document
get_plan_json_fallback(request_body, reply) ==
    LET url == dict_get(request_body, "plan_json_api_url")
        access_token == dict_get(request_body, "access_token")
        sent == << Request("get_plan_json", "GET", str(url),
                           "Bearer " \o str(access_token), "") >>
        fallback == PyDict([k \in {"timestamp"} |-> PyStr("2024-01-01T10:14:00+00:00")])
    IN  IF BadUrl(url)
        THEN [raised |-> TRUE, sent |-> << >>, desc |-> "unknown url type: 'None'"]
        ELSE IF reply.kind = "error"
        THEN [raised |-> FALSE, sent |-> sent, value |-> fallback]
        ELSE IF json_loads(reply.text).raised
        THEN [raised |-> FALSE, sent |-> sent, value |-> fallback]
        ELSE [raised |-> FALSE, sent |-> sent, value |-> json_loads(reply.text).value]

\* mutation: the plan is requested from the callback URL
get_plan_json_callback_url(request_body, reply) ==
    LET url == dict_get(request_body, "task_result_callback_url")
        access_token == dict_get(request_body, "access_token")
        sent == << Request("get_plan_json", "GET", str(url),
                           "Bearer " \o str(access_token), "") >>
    IN  IF BadUrl(url)
        THEN [raised |-> TRUE, sent |-> << >>, desc |-> "unknown url type: 'None'"]
        ELSE IF reply.kind = "error"
        THEN [raised |-> TRUE, sent |-> sent, desc |-> reply.desc]
        ELSE IF json_loads(reply.text).raised
        THEN [raised |-> TRUE, sent |-> sent, desc |-> json_loads(reply.text).desc]
        ELSE [raised |-> FALSE, sent |-> sent, value |-> json_loads(reply.text).value]

\* get_plan_json (lines 34-53)
get_plan_json(request_body, reply) ==
    LET url == dict_get(request_body, "plan_json_api_url")
        access_token == dict_get(request_body, "access_token")
        sent == << Request("get_plan_json", "GET", str(url),
                           "Bearer " \o str(access_token), "") >>
    IN  IF BadUrl(url)
        THEN [raised |-> TRUE, sent |-> << >>, desc |-> "unknown url type: 'None'"]
        ELSE IF reply.kind = "error"
        THEN [raised |-> TRUE, sent |-> sent, desc |-> reply.desc]
        ELSE IF json_loads(reply.text).raised
        THEN [raised |-> TRUE, sent |-> sent, desc |-> json_loads(reply.text).desc]
        ELSE [raised |-> FALSE, sent |-> sent, value |-> json_loads(reply.text).value]

\* mutation: an error of the callback request is swallowed
notify_result_swallow(request_body, st, msg, reply) ==
    LET callback_url == dict_get(request_body, "task_result_callback_url")
        access_token == dict_get(request_body, "access_token")
        data == json_dumps_task_result(st, msg)
        sent == << Request("notify_result", "PATCH", str(callback_url),
                           "Bearer " \o str(access_token), data) >>
    IN  IF BadUrl(callback_url)
        THEN [raised |-> TRUE, sent |-> << >>, desc |-> "unknown url type: 'None'"]
        ELSE [raised |-> FALSE, sent |-> sent]

\* notify_result (lines 75-103)
notify_result(request_body, st, msg, reply) ==
    LET callback_url == dict_get(request_body, "task_result_callback_url")
        access_token == dict_get(request_body, "access_token")
        data == json_dumps_task_result(st, msg)
        sent == << Request("notify_result", "PATCH", str(callback_url),
                           "Bearer " \o str(access_token), data) >>
    IN  IF BadUrl(callback_url)
        THEN [raised |-> TRUE, sent |-> << >>, desc |-> "unknown url type: 'None'"]
        ELSE IF reply.kind = "error"
        THEN [raised |-> TRUE, sent |-> sent, desc |-> reply.desc]
        ELSE [raised |-> FALSE, sent |-> sent]

-----------------------------------------------------------------------------
(* Inputs: process configurations, events and network replies *)

\* os.environ: with and without the session token, and without the name of
\* the secret's parameter
Environments ==
    { [HMAC_SECRET_KEY_PARAM |-> "/run-task/hmac-key", AWS_SESSION_TOKEN |-> "session-1"],
      [HMAC_SECRET_KEY_PARAM |-> "/run-task/hmac-key"],
      [AWS_SESSION_TOKEN |-> "session-1"] }

\* values the parameter may hold (the key is rotated between invocations)
Secrets == {"key-1", "key-2"}

RECURSIVE Members(_)
Members(pairs) ==
    IF Len(pairs) = 0 THEN << >>
    ELSE << pairs[1][1], ":", pairs[1][2] >>
            \o (IF Len(pairs) = 1 THEN << >> ELSE << "," >> \o Members(Tail(pairs)))

Object(pairs) == << "{" >> \o Members(pairs) \o << "}" >>

HandshakeBody ==
    Object(<< << "task_result_enforcement_level", "test" >>,
              << "access_token", "token-A" >>,
              << "task_result_callback_url", "https://app.terraform.io/callback/A" >> >>)

RunBodyA ==
    Object(<< << "task_result_enforcement_level", "mandatory" >>,
              << "plan_json_api_url", "https://app.terraform.io/plan/A" >>,
              << "access_token", "token-A" >>,
              << "task_result_callback_url", "https://app.terraform.io/callback/A" >> >>)

\* the same document as RunBodyA, laid out with whitespace
RunBodyASpaced ==
    << "{", WS >> \o SubSeq(RunBodyA, 2, Len(RunBodyA) - 1) \o << WS, "}" >>

RunBodyB ==
    Object(<< << "task_result_enforcement_level", "advisory" >>,
              << "plan_json_api_url", "https://app.terraform.io/plan/B" >>,
              << "access_token", "token-B" >>,
              << "task_result_callback_url", "https://app.terraform.io/callback/B" >> >>)

NoPlanUrlBody ==
    Object(<< << "task_result_enforcement_level", "mandatory" >>,
              << "access_token", "token-A" >>,
              << "task_result_callback_url", "https://app.terraform.io/callback/A" >> >>)

NoCallbackBody ==
    Object(<< << "task_result_enforcement_level", "mandatory" >>,
              << "plan_json_api_url", "https://app.terraform.io/plan/A" >> >>)

\* the enforcement level given twice: the last one counts
RepeatedLevelBody ==
    Object(<< << "task_result_enforcement_level", "test" >>,
              << "task_result_enforcement_level", "advisory" >>,
              << "plan_json_api_url", "https://app.terraform.io/plan/B" >>,
              << "access_token", "token-B" >>,
              << "task_result_callback_url", "https://app.terraform.io/callback/B" >> >>)

EmptyObjectBody == << "{", "}" >>
ListBody == << "[", "]" >>
MalformedBody == << "{", "task_result_enforcement_level", ":" >>

RequestBodies ==
    { HandshakeBody, RunBodyA, RunBodyASpaced, RunBodyB, NoPlanUrlBody,
      NoCallbackBody, RepeatedLevelBody, EmptyObjectBody, ListBody, MalformedBody }

SignatureHeader == "x-tfc-task-signature"
SignatureHeaderNames == { SignatureHeader, "X-Tfc-Task-Signature" }

\* what a caller may send as the signature of text: its digest under either
\* key, the digest of another body, nothing, or a string that is not ASCII
SignaturesFor(text) ==
    { hmac_sha512_hexdigest(k, text) : k \in Secrets }
        \cup { hmac_sha512_hexdigest("key-1", RunBodyB \o << WS >>),
               EmptySignature, NonAsciiSignature }

HeadersFor(text) ==
    { PyDict([n \in {name} |-> sig]) : name \in SignatureHeaderNames,
                                       sig \in SignaturesFor(text) }
        \cup { PyDict(<< >>), PyNone }

\* the event dicts: with and without "body", with and without "headers"
Events ==
    UNION { { [body |-> b, headers |-> h] : h \in HeadersFor(b) } : b \in RequestBodies }
        \cup { [body |-> b] : b \in RequestBodies }
        \cup { [headers |-> h] : h \in HeadersFor(EmptyObjectBody) }
        \cup { << >> }

\* what the Parameter Store extension answers
SidecarReplies ==
    { [kind |-> "value", value |-> k] : k \in Secrets }
        \cup { [kind |-> "error", desc |-> "<urlopen error [Errno 111] Connection refused>"],
               [kind |-> "error", desc |-> "'Parameter'"] }

\* what the plan URL answers
PlanReplies ==
    { [kind |-> "text", text |-> Object(<< << "timestamp", ts >> >>)] :
          ts \in { "2024-01-01T10:14:00+00:00", "2024-01-01T10:15:00+00:00",
                   "2024-06-30T23:00:59", "2025-12-31T14:59:02", "yesterday" } }
        \cup { [kind |-> "text", text |-> Object(<< << "terraform_version", "1.9.0" >> >>)],
               [kind |-> "text", text |-> ListBody],
               [kind |-> "text", text |-> << "<html>" >>],
               [kind |-> "error", desc |-> "<urlopen error timed out>"],
               [kind |-> "error", desc |-> "HTTP Error 404: Not Found"] }

\* what the callback URL answers
CallbackReplies ==
    { [kind |-> "ok"],
      [kind |-> "error", desc |-> "HTTP Error 401: Unauthorized"],
      [kind |-> "error", desc |-> "<urlopen error timed out>"] }

-----------------------------------------------------------------------------
(* handler (lines 106-200) *)

NoResponse == [statusCode |-> 0, body |-> ""]
NotVerified == [outcome |-> "not run", payload |-> << >>, sig |-> << >>, secret |-> ""]

\* lines 139-142
Unauthenticated ==
    [statusCode |-> 401, body |-> json_dumps_message("Invalid signature")]

\* lines 146-159
HandshakeAccepted ==
    [statusCode |-> 200,
     body |-> json_dumps_task_result("passed", "Configuration successful")]

\* lines 180-190
ValidationCompleted(st, msg) ==
    [statusCode |-> 200, body |-> json_dumps_task_result(st, msg)]

\* the except clause, lines 192-200
InternalError(desc) ==
    [statusCode |-> 500, body |-> json_dumps_message("Internal error: " \o desc)]

\* event.get("body", "{}") (line 133)
event_get_body(ev) == IF "body" \in DOMAIN ev THEN ev["body"] ELSE EmptyObjectBody

\* mutation: the signed payload is read with the default of line 133
event_body_default(ev) == [raised |-> FALSE, value |-> event_get_body(ev)]

\* event["body"] (line 138): KeyError when the key is missing
event_body(ev) ==
    IF "body" \in DOMAIN ev
    THEN [raised |-> FALSE, value |-> ev["body"]]
    ELSE [raised |-> TRUE, desc |-> "'body'"]

\* event.get("headers", {}) (line 134)
event_get_headers(ev) == IF "headers" \in DOMAIN ev THEN ev["headers"] ELSE PyDict(<< >>)

\* headers.get("x-tfc-task-signature", "") (line 135): an exact-name lookup
\* in a dict; AttributeError when headers is None
headers_get_signature(headers) ==
    IF headers = PyNone
    THEN [raised |-> TRUE, desc |-> "'NoneType' object has no attribute 'get'"]
    ELSE IF SignatureHeader \in DOMAIN headers.items
    THEN [raised |-> FALSE, value |-> headers.items[SignatureHeader]]
    ELSE [raised |-> FALSE, value |-> EmptySignature]

\* mutation: a failed verification no longer turns the request away
signature_rejected_never(ok) == FALSE

\* the test of line 138: the request is turned away
signature_rejected(ok) == ~ok

\* mutation: the handshake test looks for another literal
is_handshake_other_literal(request_body) ==
    dict_get(request_body, "task_result_enforcement_level") = PyStr("TEST")

\* the test of line 145
is_handshake(request_body) ==
    dict_get(request_body, "task_result_enforcement_level") = PyStr("test")

\* mutation: the parity test is inverted
validation_passed_odd(plan_timestamp) == plan_timestamp.minute % 2 = 1

\* the test of line 167
validation_passed(plan_timestamp) == plan_timestamp.minute % 2 = 0

-----------------------------------------------------------------------------
(* The steps of handler.  A step that raises leaves through the except      *)
(* clause: Raise(desc) is the return of lines 197-200.                      *)
(* calls keeps every request sent together with the reply it received.      *)

Exchange(sent, reply) ==
    [i \in 1..Len(sent) |-> [request |-> sent[i], reply |-> reply]]

Return(resp) ==
    /\ response' = resp
    /\ pc' = "returned"

Raise(desc) == Return(InternalError(desc))

\* handler is called with an event: locals are fresh
Invoke ==
    /\ pc \in {"idle", "returned"}
    /\ invocationCount < MaxInvocations
    /\ \E ev \in Events : event' = ev
    /\ invocationCount' = invocationCount + 1
    /\ pc' = "get_parameter"
    /\ hmac_key' = ""
    /\ body' = PyNone
    /\ signature' = EmptySignature
    /\ plan_json' = PyNone
    /\ status' = ""
    /\ message' = ""
    /\ verified' = NotVerified
    /\ invoked' = << >>
    /\ calls' = << >>
    /\ response' = NoResponse
    /\ UNCHANGED environ

\* line 130
ResolveSecret ==
    /\ pc = "get_parameter"
    /\ IF "HMAC_SECRET_KEY_PARAM" \notin DOMAIN environ
       THEN /\ Raise("'HMAC_SECRET_KEY_PARAM'")
            /\ UNCHANGED << hmac_key, invoked, calls >>
       ELSE \E reply \in SidecarReplies :
              LET r == get_parameter(environ["HMAC_SECRET_KEY_PARAM"], reply) IN
              /\ invoked' = Append(invoked, "get_parameter")
              /\ calls' = calls \o Exchange(r.sent, reply)
              /\ IF r.raised
                 THEN Raise(r.desc) /\ UNCHANGED hmac_key
                 ELSE /\ hmac_key' = r.value
                      /\ pc' = "parse"
                      /\ UNCHANGED response
    /\ UNCHANGED << invocationCount, environ, event, body, signature, plan_json,
                    status, message, verified >>

\* lines 133-135
ParseRequest ==
    /\ pc = "parse"
    /\ LET parsed == json_loads(event_get_body(event))
           sig == headers_get_signature(event_get_headers(event))
       IN  IF parsed.raised
           THEN Raise(parsed.desc) /\ UNCHANGED << body, signature >>
           ELSE /\ body' = parsed.value
                /\ IF sig.raised
                   THEN Raise(sig.desc) /\ UNCHANGED signature
                   ELSE /\ signature' = sig.value
                        /\ pc' = "verify"
                        /\ UNCHANGED response
    /\ UNCHANGED << invocationCount, environ, event, hmac_key, plan_json, status,
                    message, verified, invoked, calls >>

\* lines 138-142
VerifySignature ==
    /\ pc = "verify"
    /\ LET payload == event_body(event) IN
       IF payload.raised
       THEN Raise(payload.desc) /\ UNCHANGED << verified, invoked >>
       ELSE LET r == verify_hmac(payload.value, signature, hmac_key) IN
            /\ invoked' = Append(invoked, "verify_hmac")
            /\ verified' = [outcome |-> IF r.raised THEN "raised"
                                        ELSE IF r.value THEN "true" ELSE "false",
                            payload |-> payload.value,
                            sig |-> signature,
                            secret |-> hmac_key]
            /\ IF r.raised
               THEN Raise(r.desc)
               ELSE IF signature_rejected(r.value)
               THEN Return(Unauthenticated)
               ELSE pc' = "handshake" /\ UNCHANGED response
    /\ UNCHANGED << invocationCount, environ, event, hmac_key, body, signature,
                    plan_json, status, message, calls >>

\* lines 145-159
CheckHandshake ==
    /\ pc = "handshake"
    /\ IF body.type # "dict"
       THEN Raise("'list' object has no attribute 'get'")
       ELSE IF is_handshake(body)
       THEN Return(HandshakeAccepted)
       ELSE pc' = "get_plan_json" /\ UNCHANGED response
    /\ UNCHANGED << invocationCount, environ, event, hmac_key, body, signature,
                    plan_json, status, message, verified, invoked, calls >>

\* line 162
FetchPlan ==
    /\ pc = "get_plan_json"
    /\ \E reply \in PlanReplies :
         LET r == get_plan_json(body, reply) IN
         /\ invoked' = Append(invoked, "get_plan_json")
         /\ calls' = calls \o Exchange(r.sent, reply)
         /\ IF r.raised
            THEN Raise(r.desc) /\ UNCHANGED plan_json
            ELSE /\ plan_json' = r.value
                 /\ pc' = "evaluate"
                 /\ UNCHANGED response
    /\ UNCHANGED << invocationCount, environ, event, hmac_key, body, signature,
                    status, message, verified >>

\* lines 163-177
Evaluate ==
    /\ pc = "evaluate"
    /\ IF plan_json.type # "dict"
       THEN Raise("list indices must be integers or slices, not str")
            /\ UNCHANGED << status, message >>
       ELSE IF "timestamp" \notin DOMAIN plan_json.items
       THEN Raise("'timestamp'") /\ UNCHANGED << status, message >>
       ELSE LET plan_timestamp == fromisoformat(str(plan_json.items["timestamp"])) IN
            IF plan_timestamp.raised
            THEN Raise(plan_timestamp.desc) /\ UNCHANGED << status, message >>
            ELSE /\ message' = IF validation_passed(plan_timestamp.value)
                               THEN "Validation passed" ELSE "Validation failed"
                 /\ status' = IF validation_passed(plan_timestamp.value)
                              THEN "passed" ELSE "failed"
                 /\ pc' = "notify_result"
                 /\ UNCHANGED response
    /\ UNCHANGED << invocationCount, environ, event, hmac_key, body, signature,
                    plan_json, verified, invoked, calls >>

\* lines 178-190
Notify ==
    /\ pc = "notify_result"
    /\ \E reply \in CallbackReplies :
         LET r == notify_result(body, status, message, reply) IN
         /\ invoked' = Append(invoked, "notify_result")
         /\ calls' = calls \o Exchange(r.sent, reply)
         /\ IF r.raised
            THEN Raise(r.desc)
            ELSE Return(ValidationCompleted(status, message))
    /\ UNCHANGED << invocationCount, environ, event, hmac_key, body, signature,
                    plan_json, status, message, verified >>

Init ==
    /\ pc = "idle"
    /\ invocationCount = 0
    /\ environ \in Environments
    /\ event = << >>
    /\ hmac_key = ""
    /\ body = PyNone
    /\ signature = EmptySignature
    /\ plan_json = PyNone
    /\ status = ""
    /\ message = ""
    /\ verified = NotVerified
    /\ invoked = << >>
    /\ calls = << >>
    /\ response = NoResponse

Next ==
    \/ Invoke
    \/ ResolveSecret
    \/ ParseRequest
    \/ VerifySignature
    \/ CheckHandshake
    \/ FetchPlan
    \/ Evaluate
    \/ Notify

Spec == Init /\ [][Next]_vars

-----------------------------------------------------------------------------
(* Properties *)

Range(seq) == {seq[i] : i \in 1..Len(seq)}

Ops(cs) == [i \in 1..Len(cs) |-> cs[i].request.op]

\* the signature the event carries under the documented header name, "" when
\* there is none
SentSignature(ev) ==
    IF event_get_headers(ev) = PyNone THEN EmptySignature
    ELSE IF SignatureHeader \in DOMAIN event_get_headers(ev).items
    THEN event_get_headers(ev).items[SignatureHeader]
    ELSE EmptySignature

\* the secret was retrieved in this invocation
SecretResolved ==
    \E i \in 1..Len(calls) :
        calls[i].request.op = "get_parameter" /\ calls[i].reply.kind = "value"

ResolvedSecret ==
    (CHOOSE c \in Range(calls) :
        c.request.op = "get_parameter" /\ c.reply.kind = "value").reply.value

(* C1: get_plan_json and notify_result are entered only after verify_hmac   *)
(* has returned true on this invocation's raw body, signature header and    *)
(* retrieved secret; unless verification returned true, no request goes to  *)
(* the plan URL or the callback URL.                                        *)
C1_OutboundOnlyAfterVerified ==
    /\ \A i \in 1..Len(invoked) :
          invoked[i] \in {"get_plan_json", "notify_result"} =>
             /\ \E j \in 1..(i - 1) : invoked[j] = "verify_hmac"
             /\ verified.outcome = "true"
             /\ SecretResolved
             /\ verified = [outcome |-> "true",
                            payload |-> event["body"],
                            sig |-> SentSignature(event),
                            secret |-> ResolvedSecret]
    /\ verified.outcome # "true" =>
          \A i \in 1..Len(calls) : calls[i].request.op = "get_parameter"

C1_Witness ==
    /\ pc = "returned"
    /\ verified.outcome = "true"
    /\ "get_plan_json" \in Range(invoked)
    /\ "notify_result" \in Range(invoked)

(* C2: a request with a body, whose signature header (or "" when there is   *)
(* none) is not the HMAC-SHA512 of the raw body under the retrieved secret, *)
(* is answered 401 {"message": "Invalid signature"}, whatever the body.     *)
C2_BadSignatureIs401 ==
    ( /\ pc = "returned"
      /\ "body" \in DOMAIN event
      /\ event_get_headers(event) # PyNone
      /\ SecretResolved
      /\ SentSignature(event) # hmac_sha512_hexdigest(ResolvedSecret, event["body"]) )
    => response = [statusCode |-> 401, body |-> "{\"message\": \"Invalid signature\"}"]

(* C3: when the signature verifies and the payload's enforcement level is   *)
(* "test", handler answers 200 passed / "Configuration successful" and      *)
(* neither fetches the plan nor notifies: the secret retrieval is the only  *)
(* request sent.                                                            *)
C3_HandshakeSkipsPlanAndNotify ==
    ( /\ verified.outcome = "true"
      /\ ~json_loads(verified.payload).raised
      /\ json_loads(verified.payload).value.type = "dict"
      /\ dict_get(json_loads(verified.payload).value, "task_result_enforcement_level")
            = PyStr("test") )
    => /\ pc \in {"handshake", "returned"}
       /\ pc = "returned" =>
            response =
              [statusCode |-> 200,
               body |-> "{\"data\": {\"type\": \"task-results\", \"attributes\": {\"status\": \"passed\", \"message\": \"Configuration successful\"}}}"]
       /\ invoked = << "get_parameter", "verify_hmac" >>
       /\ Ops(calls) = << "get_parameter" >>

C3_Witness ==
    /\ pc = "returned"
    /\ verified.outcome = "true"
    /\ event_get_body(event) = HandshakeBody
    /\ response.statusCode = 200

\* the plan request got no usable document: a network error, a status that
\* is not 2xx, or text that is not JSON
PlanFetchFailed(reply) ==
    IF reply.kind = "error" THEN TRUE ELSE json_loads(reply.text).raised

PlanFailureDescription(reply) ==
    IF reply.kind = "error" THEN reply.desc ELSE json_loads(reply.text).desc

\* the minute of the timestamp of the plan document fetched in this invocation
PlanMinute == fromisoformat(str(plan_json.items["timestamp"])).value.minute

(* C4: in execution mode validation passes exactly when the minute of the   *)
(* plan timestamp is even: notify_result is given ("passed", "Validation    *)
(* passed") for an even minute and ("failed", "Validation failed") for an   *)
(* odd one, and the 200 response carries the status and message that were   *)
(* sent to the callback.                                                    *)
C4_MinuteParityDecides ==
    (pc = "notify_result" \/ "notify_result" \in Range(invoked)) =>
       /\ << status, message >> =
             IF PlanMinute % 2 = 0
             THEN << "passed", "Validation passed" >>
             ELSE << "failed", "Validation failed" >>
       /\ \A i \in 1..Len(calls) :
             calls[i].request.op = "notify_result" =>
                /\ calls[i].request.data =
                      "{\"data\": {\"type\": \"task-results\", \"attributes\": {\"status\": \""
                         \o status \o "\", \"message\": \"" \o message \o "\"}}}"
                /\ (pc = "returned" /\ response.statusCode = 200) =>
                      response.body = calls[i].request.data
       /\ (pc = "returned" /\ response.statusCode = 200) =>
             \E i \in 1..Len(calls) : calls[i].request.op = "notify_result"

C4_Witness ==
    /\ pc = "returned"
    /\ "notify_result" \in Range(invoked)
    /\ PlanMinute = 15
    /\ response.statusCode = 200
    /\ status = "failed"

(* C5: when the plan fetch fails (network error, non-2xx status, malformed  *)
(* JSON), handler answers 500 with a message starting "Internal error" and  *)
(* notify_result is not invoked.                                            *)
C5_PlanFailureIs500 ==
    \A i \in 1..Len(calls) :
       (calls[i].request.op = "get_plan_json" /\ PlanFetchFailed(calls[i].reply)) =>
          /\ pc = "returned"
          /\ response =
                [statusCode |-> 500,
                 body |-> "{\"message\": \"Internal error: "
                             \o PlanFailureDescription(calls[i].reply) \o "\"}"]
          /\ "notify_result" \notin Range(invoked)
          /\ "notify_result" \notin Range(Ops(calls))

C5_Witness ==
    /\ pc = "returned"
    /\ verified.outcome = "true"
    /\ \E i \in 1..Len(calls) :
          /\ calls[i].request.op = "get_plan_json"
          /\ calls[i].reply.kind = "text"
          /\ PlanFetchFailed(calls[i].reply)
    /\ response.statusCode = 500

\* the descriptions of the exceptions that occur in the model
ErrorDescriptions ==
    { "'HMAC_SECRET_KEY_PARAM'", "'body'", "'timestamp'",
      "'list' object has no attribute 'get'",
      "'NoneType' object has no attribute 'get'",
      "list indices must be integers or slices, not str",
      "unknown url type: 'None'",
      "comparing strings with non-ASCII characters is not supported",
      "Expecting value: line 1 column 1 (char 0)",
      "Invalid isoformat string: 'yesterday'" }
        \cup { r.desc : r \in { x \in SidecarReplies \cup PlanReplies \cup CallbackReplies :
                                  x.kind = "error" } }

InternalErrorResponses ==
    { [statusCode |-> 500, body |-> "{\"message\": \"Internal error: " \o d \o "\"}"] :
         d \in ErrorDescriptions }

TerminalResponses ==
    { [statusCode |-> 401, body |-> "{\"message\": \"Invalid signature\"}"],
      [statusCode |-> 200,
       body |-> "{\"data\": {\"type\": \"task-results\", \"attributes\": {\"status\": \"passed\", \"message\": \"Configuration successful\"}}}"],
      [statusCode |-> 200,
       body |-> "{\"data\": {\"type\": \"task-results\", \"attributes\": {\"status\": \"passed\", \"message\": \"Validation passed\"}}}"],
      [statusCode |-> 200,
       body |-> "{\"data\": {\"type\": \"task-results\", \"attributes\": {\"status\": \"failed\", \"message\": \"Validation failed\"}}}"] }
        \cup InternalErrorResponses

SecretRetrievalFailed ==
    \/ "HMAC_SECRET_KEY_PARAM" \notin DOMAIN environ
    \/ \E i \in 1..Len(calls) :
          calls[i].request.op = "get_parameter" /\ calls[i].reply.kind = "error"

BodyParseFailed == json_loads(event_get_body(event)).raised

ComparisonRaised == verified.outcome = "raised"

PlanRequestFailed ==
    \E i \in 1..Len(calls) :
       calls[i].request.op = "get_plan_json" /\ PlanFetchFailed(calls[i].reply)

\* the plan document arrived and has no timestamp that can be parsed
TimestampFailed ==
    \E i \in 1..Len(calls) :
       /\ calls[i].request.op = "get_plan_json"
       /\ ~PlanFetchFailed(calls[i].reply)
       /\ LET doc == json_loads(calls[i].reply.text).value IN
          IF doc.type # "dict" THEN TRUE
          ELSE IF "timestamp" \notin DOMAIN doc.items THEN TRUE
          ELSE fromisoformat(str(doc.items["timestamp"])).raised

\* notify_result was entered and its request was not sent or not accepted
NotificationFailed ==
    /\ "notify_result" \in Range(invoked)
    /\ \A i \in 1..Len(calls) :
          calls[i].request.op = "notify_result" => calls[i].reply.kind = "error"

(* C6: every invocation ends in one of the four terminal responses; a 401   *)
(* is returned only when verify_hmac ran and returned false; a failure of   *)
(* any other step (secret retrieval, body parsing, the comparison raising,  *)
(* plan fetch, timestamp, notification) gives 500 "Internal error: ...",    *)
(* never a 200 or a 401.                                                    *)
C6_FailuresAre500 ==
    /\ pc # "returned" => response = NoResponse
    /\ pc = "returned" =>
          /\ response \in TerminalResponses
          /\ response.statusCode = 401 => verified.outcome = "false"
          /\ ( \/ SecretRetrievalFailed
               \/ BodyParseFailed
               \/ ComparisonRaised
               \/ PlanRequestFailed
               \/ TimestampFailed
               \/ NotificationFailed ) => response \in InternalErrorResponses

C6_Witness ==
    /\ pc = "returned"
    /\ \E i \in 1..Len(calls) :
          calls[i].request.op = "notify_result" /\ calls[i].reply.kind = "error"
    /\ response.statusCode = 500

(* C7: an event that carries the correct signature under a header name that *)
(* differs from "x-tfc-task-signature" only in letter case is authenticated *)
(* as with the lowercase name: it is not answered 401.                      *)
C7_HeaderNameIgnoresCase ==
    ( /\ pc = "returned"
      /\ "body" \in DOMAIN event
      /\ event_get_headers(event) # PyNone
      /\ SecretResolved
      /\ \E n \in SignatureHeaderNames :
            /\ n \in DOMAIN event_get_headers(event).items
            /\ event_get_headers(event).items[n]
                  = hmac_sha512_hexdigest(ResolvedSecret, event["body"]) )
    => response.statusCode # 401

(* C8: the URL and bearer token of the plan GET and of the callback PATCH   *)
(* are the plan_json_api_url, task_result_callback_url and access_token of  *)
(* the JSON parsed from the raw body on which the signature was verified.   *)
C8_UrlsAndTokenFromVerifiedBody ==
    \A i \in 1..Len(calls) :
       calls[i].request.op \in {"get_plan_json", "notify_result"} =>
          /\ verified.outcome = "true"
          /\ verified.payload = event["body"]
          /\ LET payload == json_loads(verified.payload).value
                 field == IF calls[i].request.op = "get_plan_json"
                          THEN "plan_json_api_url" ELSE "task_result_callback_url"
             IN  /\ payload.type = "dict"
                 /\ field \in DOMAIN payload.items
                 /\ calls[i].request.url = payload.items[field].val
                 /\ calls[i].request.credential =
                       "Bearer " \o str(dict_get(payload, "access_token"))

C8_Witness ==
    /\ event_get_body(event) = RunBodyB
    /\ Ops(calls) = << "get_parameter", "get_plan_json", "notify_result" >>
    /\ calls[3].request.url = "https://app.terraform.io/callback/B"
    /\ calls[3].request.credential = "Bearer token-B"

CallSucceeded(c) ==
    CASE c.request.op = "get_parameter" -> c.reply.kind = "value"
      [] c.request.op = "get_plan_json" -> ~PlanFetchFailed(c.reply)
      [] OTHER -> c.reply.kind = "ok"

(* C9: the outbound requests of one invocation are issued one after the     *)
(* other, each at most once, in the order secret retrieval, plan fetch,     *)
(* notify; the secret is retrieved before the body is parsed or the         *)
(* signature checked; a later request is issued only if every earlier one   *)
(* succeeded.                                                               *)
C9_SequentialNoRetry ==
    /\ Len(calls) <= 3
    /\ Ops(calls) = SubSeq(<< "get_parameter", "get_plan_json", "notify_result" >>,
                           1, Len(calls))
    /\ \A i \in 1..(Len(calls) - 1) : CallSucceeded(calls[i])
    /\ (pc \in {"parse", "verify", "handshake"} \/ body # PyNone
          \/ verified.outcome # "not run") =>
          /\ Len(invoked) >= 1
          /\ invoked[1] = "get_parameter"
          /\ SecretResolved

C9_Witness ==
    /\ pc = "returned"
    /\ Len(calls) = 3
    /\ calls[3].reply.kind = "ok"

(* C10: an event without the "body" key is neither authenticated nor        *)
(* rejected as unauthenticated: verify_hmac does not run, handler answers   *)
(* 500, and neither the plan URL nor the callback URL is called.            *)
C10_MissingBodyIs500 ==
    "body" \notin DOMAIN event =>
       /\ verified.outcome = "not run"
       /\ "verify_hmac" \notin Range(invoked)
       /\ Range(invoked) \subseteq {"get_parameter"}
       /\ Range(Ops(calls)) \subseteq {"get_parameter"}
       /\ pc \in {"handshake", "get_plan_json", "evaluate", "notify_result"} => FALSE
       /\ pc = "returned" => response.statusCode = 500

C10_Witness ==
    /\ pc = "returned"
    /\ "body" \notin DOMAIN event
    /\ SecretResolved
    /\ SentSignature(event) = hmac_sha512_hexdigest(ResolvedSecret, EmptyObjectBody)
    /\ response = [statusCode |-> 500, body |-> "{\"message\": \"Internal error: 'body'\"}"]

====
